---------------------------- MODULE Spec2Model ----------------------------
(***************************************************************************)
(* A model of the motor-control core of esp-playground: SensorState        *)
(* (src/src/sensor.rs), PIDController (src/src/pid.rs), BLDC and           *)
(* ThreePhasePwm (src/src/motor/mod.rs) and Foc (src/src/motor/foc.rs).    *)
(*                                                                         *)
(* Numbers.  The code computes in f32.  The model computes in exact        *)
(* rationals <<n, d>> (d > 0, lowest terms), so f32 rounding, NaN and      *)
(* infinities are not modelled.  PI is the rational 157/50.  A Duration is *)
(* an integer number of microseconds.  An Instant is kept relative: the    *)
(* only use the code makes of prev.instant is `now - self.prev.instant`,   *)
(* which an operation receives as its input `elapsed`.                     *)
(***************************************************************************)
EXTENDS Integers, Sequences, FiniteSets, TLC

VARIABLES
    sensor,     \* Sensor.state: the SensorState of the motor's sensor
    rotor,      \* the rotor's true position, as the reading in [0, 2*PI) an
                \* angle source returns for it (environment)
    crossed,    \* the 0/2*PI crossings of the rotor's last move: 1 forwards,
                \* -1 backwards, 0 none (environment, ghost of SpecSensor)
    moved,      \* the true displacement of the rotor's last move (ghost of
                \* SpecSensor)
    recorded,   \* the records since the SensorState was created or reset,
                \* counted up to 3 (ghost)
    lastOp,     \* the operation that produced this state
    pid,        \* a PIDController of its own (SpecPid)
    call,       \* the arguments of the last compute on pid (ghost)
    calls,      \* the number of compute calls on pid (ghost)
    configs,    \* the number of configuration steps on pid (ghost)
    motor,      \* the fields of the BLDC other than its sensor and its pwm
    pwm,        \* the duty cycle last committed to the channels a, b, c
    foc,        \* the Foc driver: motion_control, velocity_pid, angle_pid
    result,     \* the outcome of the last operation on the drive
    io,         \* the sensor reads and channel writes of that operation (ghost)
    ops,        \* the number of operations on the drive so far (ghost)
    open_loop   \* the OpenLoop driver of the motor: shaft_angle, velocity

-----------------------------------------------------------------------------
(* Exact rational arithmetic standing for f32 arithmetic.                  *)

RECURSIVE GCD(_, _)
GCD(a, b) == IF b = 0 THEN a ELSE GCD(b, a % b)

IAbs(i) == IF i < 0 THEN -i ELSE i

Frac(n, d) ==
    LET g == GCD(IAbs(n), IAbs(d))
        s == IF d < 0 THEN -1 ELSE 1
    IN  <<(s * n) \div g, (s * d) \div g>>

R(i) == <<i, 1>>

RAdd(x, y) ==
    LET g == GCD(x[2], y[2])
    IN  Frac(x[1] * (y[2] \div g) + y[1] * (x[2] \div g), x[2] * (y[2] \div g))

RNeg(x) == <<-x[1], x[2]>>

RSub(x, y) == RAdd(x, RNeg(y))

RMul(x, y) ==
    LET g1 == GCD(IAbs(x[1]), y[2])
        g2 == GCD(IAbs(y[1]), x[2])
        a1 == IF g1 = 0 THEN 1 ELSE g1
        a2 == IF g2 = 0 THEN 1 ELSE g2
    IN  Frac((x[1] \div a1) * (y[1] \div a2), (x[2] \div a2) * (y[2] \div a1))

RDiv(x, y) == RMul(x, Frac(y[2], y[1]))

RLt(x, y) ==
    LET g == GCD(x[2], y[2])
    IN  x[1] * (y[2] \div g) < y[1] * (x[2] \div g)

RLe(x, y) == ~RLt(y, x)

RAbs(x) == <<IAbs(x[1]), x[2]>>

\* f32::signum: 1.0 for a positive number (and +0.0), -1.0 for a negative one
signum(x) == IF x[1] < 0 THEN -1 ELSE 1

\* f32::clamp(min, max)
clamp(x, min, max) == IF RLt(x, min) THEN min ELSE IF RLt(max, x) THEN max ELSE x

PI == Frac(157, 50)

TWO_PI == RMul(R(2), PI)

-----------------------------------------------------------------------------
(* Bounds of the model.                                                    *)

\* sensor readings are the multiples of 2*PI/Grid in [0, 2*PI)
Grid == 8

\* the revolution counter stays within MaxTurns of 0
MaxTurns == 1

\* elapsed times between two clock reads, in microseconds
ElapsedSet == {500, 1000}

GridAngle(k) == RMul(Frac(k, Grid), TWO_PI)

GridReadings == {GridAngle(k) : k \in 0..(Grid - 1)}

\* the readings of the boundary-crossing scenario: 0.1 rad and 6.2 rad
ScenarioReadings == {Frac(1, 10), Frac(31, 5)}

Readings == GridReadings \cup ScenarioReadings

-----------------------------------------------------------------------------
(* util::Velocity: a scalar in rad/s.                                      *)

ZERO == R(0)

\* Velocity::rad(radian).per(duration)
per(radian, duration) == RMul(RDiv(radian, R(duration)), R(1000000))

-----------------------------------------------------------------------------
(* sensor::SensorState                                                     *)

DefaultDt == 1000

SensorStateDefault ==
    [angle |-> R(0),
     prev |-> [dt |-> DefaultDt, total_angle |-> R(0)],
     full_rotations |-> 0,
     velocity |-> ZERO]

total_angle(s) == RAdd(RMul(R(s.full_rotations), TWO_PI), s.angle)

\* the threshold of record: 1.6 * PI
WrapThreshold == RMul(Frac(16, 10), PI)

\* mutant: a delta above 0.1 * PI already counts as a revolution
full_rotations_after_low_threshold(s, new_angle) ==
    LET angle_delta == RSub(new_angle, s.angle)
    IN  IF RLt(RMul(Frac(1, 10), PI), RAbs(angle_delta))
        THEN s.full_rotations - signum(angle_delta)
        ELSE s.full_rotations

\* mutant: the counter moves with the sign of the delta
full_rotations_after_plus(s, new_angle) ==
    LET angle_delta == RSub(new_angle, s.angle)
    IN  IF RLt(WrapThreshold, RAbs(angle_delta))
        THEN s.full_rotations + signum(angle_delta)
        ELSE s.full_rotations

full_rotations_after(s, new_angle) ==
    LET angle_delta == RSub(new_angle, s.angle)
    IN  IF RLt(WrapThreshold, RAbs(angle_delta))
        THEN s.full_rotations - signum(angle_delta)
        ELSE s.full_rotations

\* mutant: the snapshot keeps the continuous angle of before the counter moved
record_stale_total(s, new_angle, elapsed) ==
    LET s1 == [s EXCEPT !.full_rotations = full_rotations_after(s, new_angle),
                        !.angle = new_angle]
        total == RAdd(RMul(R(s.full_rotations), TWO_PI), new_angle)
    IN  [s1 EXCEPT
            !.velocity = per(RSub(total, s.prev.total_angle), s.prev.dt),
            !.prev = [dt |-> elapsed, total_angle |-> total]]

\* mutant: the velocity is taken over the time since the previous record
record_current_dt(s, new_angle, elapsed) ==
    LET s1 == [s EXCEPT !.full_rotations = full_rotations_after(s, new_angle),
                        !.angle = new_angle]
        total == total_angle(s1)
    IN  [s1 EXCEPT
            !.velocity = per(RSub(total, s.prev.total_angle), elapsed),
            !.prev = [dt |-> elapsed, total_angle |-> total]]

\* SensorState::record; elapsed is now - prev.instant
record(s, new_angle, elapsed) ==
    LET s1 == [s EXCEPT !.full_rotations = full_rotations_after(s, new_angle),
                        !.angle = new_angle]
        total == total_angle(s1)
    IN  [s1 EXCEPT
            !.velocity = per(RSub(total, s.prev.total_angle), s.prev.dt),
            !.prev = [dt |-> elapsed, total_angle |-> total]]

\* mutant: reset keeps the state
reset_keeps_state(s) == s

\* Sensor::reset
reset(s) == SensorStateDefault

-----------------------------------------------------------------------------
(* pid::PIDController.  An Option is the empty tuple (None) or a tuple of   *)
(* one value (Some).                                                       *)

None == <<>>

Some(x) == <<x>>

\* f32::MAX, the limit of a new controller: above every value the bounded
\* inputs of the model can produce
F32_MAX == R(1000000)

PIDControllerNew ==
    [p |-> R(0), i |-> R(0), d |-> R(0),
     output_ramp |-> None,
     limit |-> F32_MAX,
     state |-> [integral |-> R(0), err |-> R(0), output |-> R(0)]]

\* dt.as_micros() as f32 * 1e-6
Seconds(dt) == Frac(dt, 1000000)

\* mutant: half the proportional gain
p_term_half(c, err) == RMul(RMul(c.p, err), Frac(1, 2))

\* the proportional, integral and derivative terms of compute
p_term(c, err) == RMul(c.p, err)

\* mutant: the integral is not clamped
i_term_unclamped(c, err, dt) ==
    RAdd(c.state.integral,
         RMul(RMul(RMul(c.i, dt), Frac(1, 2)), RAdd(err, c.state.err)))

i_term(c, err, dt) ==
    clamp(RAdd(c.state.integral,
               RMul(RMul(RMul(c.i, dt), Frac(1, 2)), RAdd(err, c.state.err))),
          RNeg(c.limit), c.limit)

\* mutant: the derivative gain is left out
d_term_no_gain(c, err, dt) == RDiv(RSub(err, c.state.err), dt)

d_term(c, err, dt) == RDiv(RMul(c.d, RSub(err, c.state.err)), dt)

\* mutant: only a rising output is slew-rate limited
ramped_rising_only(c, output, dt) ==
    IF c.output_ramp = None THEN output
    ELSE LET ramp == c.output_ramp[1]
             rate == RDiv(RSub(output, c.state.output), dt)
         IN  IF RLt(ramp, rate) THEN RAdd(c.state.output, RMul(ramp, dt))
             ELSE output

\* the slew-rate limit of compute on the output `output`
ramped(c, output, dt) ==
    IF c.output_ramp = None THEN output
    ELSE LET ramp == c.output_ramp[1]
             rate == RDiv(RSub(output, c.state.output), dt)
         IN  IF RLt(ramp, rate) THEN RAdd(c.state.output, RMul(ramp, dt))
             ELSE IF RLt(rate, RNeg(ramp)) THEN RSub(c.state.output, RMul(ramp, dt))
             ELSE output

\* PIDController::compute: the controller after the call; the value returned
\* is its state.output
compute(c, target, measure, duration) ==
    LET dt == Seconds(duration)
        err == RSub(target, measure)
        p == p_term(c, err)
        i == i_term(c, err, dt)
        d == d_term(c, err, dt)
        output == clamp(RAdd(RAdd(p, i), d), RNeg(c.limit), c.limit)
    IN  [c EXCEPT !.state = [integral |-> i, err |-> err,
                             output |-> ramped(c, output, dt)]]

-----------------------------------------------------------------------------
(* fixed::types::I16F16.  A fixed-point number is the integer               *)
(* value * FixOne.  The code's 16 fractional bits are narrowed to 8 so that *)
(* products stay within the integers of the model checker.                 *)

FixOne == 256

\* f32::trunc and f32::floor, as integers
Trunc(x) == IF x[1] >= 0 THEN x[1] \div x[2] ELSE -((-x[1]) \div x[2])

Floor(x) == x[1] \div x[2]

\* f32::round: to the nearest integer, halves away from zero
Round(x) ==
    IF x[1] >= 0 THEN (2 * x[1] + x[2]) \div (2 * x[2])
    ELSE -((2 * (-x[1]) + x[2]) \div (2 * x[2]))

\* integer division of Rust: towards zero
IDiv(a, b) == IF (a >= 0) = (b > 0) THEN IAbs(a) \div IAbs(b) ELSE -(IAbs(a) \div IAbs(b))

\* f!(x), I16F16::from_num and I16F16::lit: to the nearest, ties to even
f(x) ==
    LET y == RMul(x, R(FixOne))
        fl == Floor(y)
        twice == 2 * (y[1] - fl * y[2])
    IN  IF twice < y[2] THEN fl
        ELSE IF twice > y[2] THEN fl + 1
        ELSE IF fl % 2 = 0 THEN fl ELSE fl + 1

\* I16F16 * I16F16 and I16F16 / I16F16
FMul(a, b) == (a * b) \div FixOne

FDiv(a, b) == IDiv(a * FixOne, b)

\* I16F16::to_num::<u16>() of a value that is not negative
to_num(a) == a \div FixOne

FClamp(a, min, max) == IF a < min THEN min ELSE IF a > max THEN max ELSE a

IMin(a, b) == IF a < b THEN a ELSE b

IMax(a, b) == IF a > b THEN a ELSE b

SQRT3_2 == f(Frac(866, 1000))

\* cordic::sin_cos (an external crate): Bhaskara's approximation
\* sin x = 16 x (PI - x) / (5 PI^2 - 4 x (PI - x)) on [0, PI], in fixed point
PiFix == f(PI)

SinHalfTurn(x) ==
    LET u == x * (PiFix - x)
    IN  (16 * u * FixOne) \div (5 * PiFix * PiFix - 4 * u)

SinFix(x) ==
    LET y == x % (2 * PiFix)
    IN  IF y <= PiFix THEN SinHalfTurn(y) ELSE -SinHalfTurn(y - PiFix)

CosFix(x) == SinFix(x + IDiv(PiFix, 2))

sin_cos(x) == <<SinFix(x), CosFix(x)>>

-----------------------------------------------------------------------------
(* motor::ThreePhasePwm: the duty cycle last committed to each channel.    *)

\* the range of an I16F16: 16 integer bits, so -32768 <= value < 32768
FixMax == 32768 * FixOne

Overflows(x) == x < -FixMax \/ x >= FixMax

\* the value an overflowing I16F16 operation wraps to when the build has no
\* overflow checks
FWrap(x) == ((x + FixMax) % (2 * FixMax)) - FixMax

\* ThreePhasePwm::volt_to_percent overflows in volt * 100 or in the division
percent_overflows(volt, volt_max) ==
    \/ Overflows(volt * 100)
    \/ Overflows(FDiv(FWrap(volt * 100), volt_max))

\* ThreePhasePwm::volt_to_percent, for volt_max # 0: the value returned when
\* nothing overflows or the build wraps
volt_to_percent(volt, volt_max) ==
    to_num(FClamp(FWrap(FDiv(FWrap(volt * 100), volt_max)), 0, f(R(100))))

\* mutant: a failure rolls the channels written before it back
set_duty_rollback(p, duty, failAt) ==
    [pwm |-> IF failAt = 0 THEN [a |-> duty[1], b |-> duty[2], c |-> duty[3]] ELSE p,
     ok |-> failAt = 0,
     writes |-> IF failAt = 0 THEN 3 ELSE failAt]

\* ThreePhasePwm::set_duty: the channels are written in the order a, b, c; a
\* channel that fails (failAt = 1, 2, 3 for a, b, c; 0 for none) keeps its
\* duty and ends the call with its error
set_duty(p, duty, failAt) ==
    [pwm |-> [a |-> IF failAt = 1 THEN p.a ELSE duty[1],
              b |-> IF failAt \in {1, 2} THEN p.b ELSE duty[2],
              c |-> IF failAt \in {1, 2, 3} THEN p.c ELSE duty[3]],
     ok |-> failAt = 0,
     writes |-> IF failAt = 0 THEN 3 ELSE failAt]

\* the percentages that ThreePhasePwm::set_voltage passes to set_duty
percents(duty, volt_max) ==
    <<volt_to_percent(duty[1], volt_max),
      volt_to_percent(duty[2], volt_max),
      volt_to_percent(duty[3], volt_max)>>

\* ThreePhasePwm::set_voltage; `overflow` says that one of the percentages
\* overflows, which panics before the first write in a build with overflow
\* checks
set_voltage(p, duty, volt_max, failAt) ==
    [pwm |-> set_duty(p, percents(duty, volt_max), failAt).pwm,
     ok |-> set_duty(p, percents(duty, volt_max), failAt).ok,
     writes |-> set_duty(p, percents(duty, volt_max), failAt).writes,
     overflow |-> \E k \in 1..3 : percent_overflows(duty[k], volt_max)]

\* the builds of the program on an overflowing operation: with overflow checks
\* (TRUE) it panics, without them (FALSE) it wraps
OverflowChecks(overflow) == IF overflow THEN BOOLEAN ELSE {FALSE}

-----------------------------------------------------------------------------
(* motor::BLDC                                                             *)

\* the const generic POLE of BLDC: the number of pole pairs
POLE == 7

DEFAULT_VOLTAGE_SUPPLY == 12

\* BLDC::new
BLDCNew ==
    [zero_electrical_angle |-> None,
     voltage_limit |-> R(12),
     velocity_limit |-> RMul(R(60), PI),
     voltage_power_supply |-> R(DEFAULT_VOLTAGE_SUPPLY),
     kv |-> None,
     phase_resistance |-> None,
     phase_inductance |-> None]

\* Option::unwrap_or_default of an Option<f32>
unwrap_or_default(o) == IF o = None THEN R(0) ELSE o[1]

\* mutant: a negative remainder is returned as it is
normalize_angle_remainder(angle) ==
    RSub(angle, RMul(R(Trunc(RDiv(angle, TWO_PI))), TWO_PI))

\* normalize_angle: angle % (2*PI) is the remainder of the truncated quotient
normalize_angle(angle) ==
    LET a == RSub(angle, RMul(R(Trunc(RDiv(angle, TWO_PI))), TWO_PI))
    IN  IF RLt(a, R(0)) THEN RAdd(a, TWO_PI) ELSE a

\* BLDC::electrical_angle
electrical_angle(m, s) ==
    normalize_angle(RSub(RMul(s.angle, R(POLE)),
                         unwrap_or_default(m.zero_electrical_angle)))

\* BLDC::phase_voltage, on fixed-point volt_q, volt_d: the rotation of (d, q)
\* by the electrical angle into <<alpha, beta>>
inverse_park(sc, volt_q, volt_d) ==
    <<FMul(sc[2], volt_d) - FMul(sc[1], volt_q),
      FMul(sc[1], volt_d) + FMul(sc[2], volt_q)>>

\* the uncentered phase voltages <<a, b, c>> of <<alpha, beta>>
inverse_clarke(ab) ==
    <<ab[1],
      FMul(f(Frac(-1, 2)), ab[1]) + FMul(SQRT3_2, ab[2]),
      FMul(f(Frac(-1, 2)), ab[1]) - FMul(SQRT3_2, ab[2])>>

\* mutant: the shift is half the supply, whatever the triple
center_half_supply(m, v) == IDiv(f(m.voltage_power_supply), 2)

\* the shift of phase_voltage that centers <<a, b, c>> on half the supply
center(m, v) ==
    IDiv(f(m.voltage_power_supply), 2)
        - IDiv(IMax(IMax(v[1], v[2]), v[3]) + IMin(IMin(v[1], v[2]), v[3]), 2)

centered(v, shift) == <<v[1] + shift, v[2] + shift, v[3] + shift>>

phase_voltage(m, volt_q, volt_d, angle) ==
    LET v == inverse_clarke(inverse_park(sin_cos(f(angle)), volt_q, volt_d))
    IN  centered(v, center(m, v))

-----------------------------------------------------------------------------
(* motor::foc::Foc                                                         *)

SQRT_3 == Frac(1732, 1000)

RPM_TO_RADS == Frac(10472, 100000)

\* the variants of MotionControl
MCVelocity(target) == [kind |-> "Velocity", target |-> target]

MCAngle(target) == [kind |-> "Angle", target |-> target]

MCTorque(target) == [kind |-> "Torque", target |-> target]

MCRatchet(steps) ==
    [kind |-> "Ratchet", steps |-> steps, rad_per_step |-> RDiv(TWO_PI, R(steps))]

MCLimitPos(low, high) == [kind |-> "LimitPos", low |-> low, high |-> high]

\* Foc::new
FocNew ==
    [motion_control |-> MCVelocity(ZERO),
     velocity_pid |-> [PIDControllerNew EXCEPT !.p = Frac(2, 100), !.i = R(3),
                                               !.output_ramp = Some(R(1000)),
                                               !.limit = R(12)],
     angle_pid |-> [PIDControllerNew EXCEPT !.p = R(10), !.limit = R(10)]]

\* Foc::to_ratchet
to_ratchet(fc, num_step) ==
    [motion_control |-> MCRatchet(num_step),
     angle_pid |-> [fc.angle_pid EXCEPT !.p = R(240), !.limit = R(240)],
     velocity_pid |-> [fc.velocity_pid EXCEPT !.p = Frac(3, 100), !.i = R(0)]]

\* mutant: the d voltage is not clamped
calculate_qd_d_unclamped(m, s, target) ==
    LET voltage_limit == m.voltage_limit
        current == s.velocity
        voltage_bemf == IF m.kv = None THEN R(0)
                        ELSE RDiv(RDiv(current, RMul(m.kv[1], SQRT_3)), RPM_TO_RADS)
        q == clamp(IF m.phase_resistance = None THEN target
                   ELSE RAdd(RMul(target, m.phase_resistance[1]), voltage_bemf),
                   RNeg(voltage_limit), voltage_limit)
        d == IF m.phase_inductance = None THEN R(0)
             ELSE RMul(RMul(RMul(RNeg(target), current), R(POLE)),
                       m.phase_inductance[1])
    IN  <<q, d>>

\* Foc::calculate_qd
calculate_qd(m, s, target) ==
    LET voltage_limit == m.voltage_limit
        current == s.velocity
        voltage_bemf == IF m.kv = None THEN R(0)
                        ELSE RDiv(RDiv(current, RMul(m.kv[1], SQRT_3)), RPM_TO_RADS)
        q == clamp(IF m.phase_resistance = None THEN target
                   ELSE RAdd(RMul(target, m.phase_resistance[1]), voltage_bemf),
                   RNeg(voltage_limit), voltage_limit)
        d == clamp(IF m.phase_inductance = None THEN R(0)
                   ELSE RMul(RMul(RMul(RNeg(target), current), R(POLE)),
                             m.phase_inductance[1]),
                   RNeg(voltage_limit), voltage_limit)
    IN  <<q, d>>

\* mutant: the dead-band of the Angle mode is a thousandth of a radian
AngleDeadBandThousandth == Frac(1, 1000)

\* the dead-bands of the Angle and the Ratchet mode
AngleDeadBand == Frac(3, 100)

RatchetDeadBand == Frac(1, 100)

\* mutant: the target of the Ratchet mode is the multiple of step below total
ratchet_target_floor(total, step) == RMul(R(Floor(RDiv(total, step))), step)

\* the target of the Ratchet mode: (total / step).round() * step
ratchet_target(total, step) == RMul(R(Round(RDiv(total, step))), step)

\* mutant: the Torque mode goes through the velocity PID
control_torque_through_pid(fc, m, s) ==
    LET mc == fc.motion_control
        elapsed == s.prev.dt
        none == [kind |-> "return", qd |-> <<R(0), R(0)>>, foc |-> fc]
    IN  CASE mc.kind = "LimitPos" -> [none EXCEPT !.kind = "todo"]
          [] mc.kind = "Torque" ->
                LET tp == compute(fc.velocity_pid, mc.target, s.velocity, elapsed)
                IN  [kind |-> "qd",
                     qd |-> calculate_qd(m, s, tp.state.output),
                     foc |-> [fc EXCEPT !.velocity_pid = tp]]
          [] mc.kind = "Angle" ->
                IF RLt(RAbs(RSub(mc.target, total_angle(s))), AngleDeadBand)
                THEN none
                ELSE LET ap == compute(fc.angle_pid, mc.target, total_angle(s), elapsed)
                         vp == compute(fc.velocity_pid, ap.state.output, s.velocity, elapsed)
                     IN  [kind |-> "qd",
                          qd |-> calculate_qd(m, s, vp.state.output),
                          foc |-> [fc EXCEPT !.angle_pid = ap, !.velocity_pid = vp]]
          [] mc.kind = "Velocity" ->
                LET vp == compute(fc.velocity_pid, mc.target, s.velocity, elapsed)
                IN  [kind |-> "qd",
                     qd |-> calculate_qd(m, s, vp.state.output),
                     foc |-> [fc EXCEPT !.velocity_pid = vp]]
          [] mc.kind = "Ratchet" ->
                LET step == mc.rad_per_step
                    total == total_angle(s)
                    target == ratchet_target(total, step)
                IN  IF RLt(RAbs(RSub(target, total)), RatchetDeadBand)
                    THEN none
                    ELSE LET ap == compute(fc.angle_pid, target, total, elapsed)
                             vp == compute(fc.velocity_pid, ap.state.output,
                                           s.velocity, elapsed)
                             velocity == clamp(vp.state.output,
                                               RNeg(m.velocity_limit), m.velocity_limit)
                         IN  [kind |-> "qd",
                              qd |-> calculate_qd(m, s, velocity),
                              foc |-> [fc EXCEPT !.angle_pid = ap, !.velocity_pid = vp]]

\* the match on the motion-control mode of Foc::tick, on the sensor state s
\* after the update: `kind` is "todo" for the unimplemented mode, "return"
\* for the early return of a dead-band, and "qd" with the pair qd otherwise
control(fc, m, s) ==
    LET mc == fc.motion_control
        elapsed == s.prev.dt
        none == [kind |-> "return", qd |-> <<R(0), R(0)>>, foc |-> fc]
    IN  CASE mc.kind = "LimitPos" -> [none EXCEPT !.kind = "todo"]
          [] mc.kind = "Torque" ->
                [kind |-> "qd", qd |-> calculate_qd(m, s, mc.target), foc |-> fc]
          [] mc.kind = "Angle" ->
                IF RLt(RAbs(RSub(mc.target, total_angle(s))), AngleDeadBand)
                THEN none
                ELSE LET ap == compute(fc.angle_pid, mc.target, total_angle(s), elapsed)
                         vp == compute(fc.velocity_pid, ap.state.output, s.velocity, elapsed)
                     IN  [kind |-> "qd",
                          qd |-> calculate_qd(m, s, vp.state.output),
                          foc |-> [fc EXCEPT !.angle_pid = ap, !.velocity_pid = vp]]
          [] mc.kind = "Velocity" ->
                LET vp == compute(fc.velocity_pid, mc.target, s.velocity, elapsed)
                IN  [kind |-> "qd",
                     qd |-> calculate_qd(m, s, vp.state.output),
                     foc |-> [fc EXCEPT !.velocity_pid = vp]]
          [] mc.kind = "Ratchet" ->
                LET step == mc.rad_per_step
                    total == total_angle(s)
                    target == ratchet_target(total, step)
                IN  IF RLt(RAbs(RSub(target, total)), RatchetDeadBand)
                    THEN none
                    ELSE LET ap == compute(fc.angle_pid, target, total, elapsed)
                             vp == compute(fc.velocity_pid, ap.state.output,
                                           s.velocity, elapsed)
                             velocity == clamp(vp.state.output,
                                               RNeg(m.velocity_limit), m.velocity_limit)
                         IN  [kind |-> "qd",
                              qd |-> calculate_qd(m, s, velocity),
                              foc |-> [fc EXCEPT !.angle_pid = ap, !.velocity_pid = vp]]

\* OpenLoop::new of open_loop.rs: the driver without sensor feedback
OpenLoopNew(velocity) == [shaft_angle |-> R(0), velocity |-> velocity]

\* OpenLoop::set_velocity
set_velocity(ol, velocity) == [ol EXCEPT !.velocity = velocity]

\* OpenLoop::update_velocity
update_velocity(ol, delta) == [ol EXCEPT !.velocity = RAdd(ol.velocity, delta)]

\* the shaft angle of OpenLoop::tick after dt microseconds
shaft_angle_after(ol, dt) ==
    normalize_angle(RAdd(ol.shaft_angle, RMul(Seconds(dt), ol.velocity)))

\* the phase voltages of OpenLoop::tick at the shaft angle `shaft`
open_loop_voltage(m, shaft) ==
    phase_voltage(m, IDiv(f(m.voltage_limit), 2), 0, RMul(shaft, R(POLE)))

\* the outcome of an operation: a returned value or a panic that ends the task
Ok == [kind |-> "Ok", what |-> ""]

Err(what) == [kind |-> "Err", what |-> what]

Panic(what) == [kind |-> "Panic", what |-> what]

\* the reads of the wall clock in Sensor::update: the Instant::now() of
\* record, which a failed read does not reach
update_clock_reads(res) == IF res = None THEN 0 ELSE 1

\* the reads of the wall clock in OpenLoop::tick: those of the sensor update
\* and the now() that follows it
open_loop_clock_reads(res) ==
    IF res = None THEN 0 ELSE update_clock_reads(res) + 1

\* mutant: a failed read stores a zeroed state
update_reset_on_failure(s, res, elapsed) ==
    IF res = None THEN SensorStateDefault ELSE record(s, res[1], elapsed)

\* Sensor::update: res is the result of read_angle, None for a failure; the
\* state is left alone when the read fails
update(s, res, elapsed) ==
    IF res = None THEN s ELSE record(s, res[1], elapsed)

\* mutant: the unimplemented mode returns without a write
tick_outcome_todo_returns(fc, p, res, s1, ctl, w, checks) ==
    IF res = None
    THEN [foc |-> fc, sensor |-> s1, pwm |-> p, writes |-> 0, pwm_ok |-> TRUE,
          result |-> Panic("Failed to update sensor")]
    ELSE IF ctl.kind = "todo" \/ ctl.kind = "return"
    THEN [foc |-> fc, sensor |-> s1, pwm |-> p, writes |-> 0, pwm_ok |-> TRUE,
          result |-> Ok]
    ELSE IF w.overflow /\ checks
    THEN [foc |-> ctl.foc, sensor |-> s1, pwm |-> p, writes |-> 0, pwm_ok |-> TRUE,
          result |-> Panic("overflow")]
    ELSE [foc |-> ctl.foc, sensor |-> s1, pwm |-> w.pwm, writes |-> w.writes,
          pwm_ok |-> w.ok,
          result |-> IF w.ok THEN Ok ELSE Err("pwm")]

\* the end of Foc::tick on the drive (fc, m, p): s1 is the sensor state after
\* the update, res the result of its read, ctl the control of that state, w
\* the set_voltage of the phase voltages of ctl.qd, checks the overflow checks
\* of the build
tick_outcome(fc, p, res, s1, ctl, w, checks) ==
    IF res = None
    THEN [foc |-> fc, sensor |-> s1, pwm |-> p, writes |-> 0, pwm_ok |-> TRUE,
          result |-> Panic("Failed to update sensor")]
    ELSE IF ctl.kind = "todo"
    THEN [foc |-> fc, sensor |-> s1, pwm |-> p, writes |-> 0, pwm_ok |-> TRUE,
          result |-> Panic("not yet implemented")]
    ELSE IF ctl.kind = "return"
    THEN [foc |-> fc, sensor |-> s1, pwm |-> p, writes |-> 0, pwm_ok |-> TRUE,
          result |-> Ok]
    ELSE IF w.overflow /\ checks
    THEN [foc |-> ctl.foc, sensor |-> s1, pwm |-> p, writes |-> 0, pwm_ok |-> TRUE,
          result |-> Panic("overflow")]
    ELSE [foc |-> ctl.foc, sensor |-> s1, pwm |-> w.pwm, writes |-> w.writes,
          pwm_ok |-> w.ok,
          result |-> IF w.ok THEN Ok ELSE Err("pwm")]

\* OpenLoop::tick on the driver ol over the motor with duties p: res is the
\* result of the sensor read, s1 the sensor state after the update, shaft the
\* new shaft angle, w the set_voltage of its phase voltages, checks the
\* overflow checks of the build
open_loop_outcome(ol, p, s, res, s1, shaft, w, checks) ==
    IF res = None
    THEN [open_loop |-> ol, sensor |-> s, pwm |-> p, writes |-> 0, pwm_ok |-> TRUE,
          result |-> Panic("unwrap of a sensor error")]
    ELSE IF w.overflow /\ checks
    THEN [open_loop |-> [ol EXCEPT !.shaft_angle = shaft], sensor |-> s1, pwm |-> p,
          writes |-> 0, pwm_ok |-> TRUE, result |-> Panic("overflow")]
    ELSE [open_loop |-> [ol EXCEPT !.shaft_angle = shaft], sensor |-> s1,
          pwm |-> w.pwm, writes |-> w.writes, pwm_ok |-> w.ok,
          result |-> IF w.ok THEN Ok ELSE Panic("unwrap of a PWM error")]

\* the forcing pulse of BLDC::align
align_voltage(m) ==
    phase_voltage(m, IDiv(f(m.voltage_power_supply), 2), 0, RMul(Frac(3, 2), PI))

\* the end of BLDC::align on the motor (m, p): res1 and res2 are the results of
\* the reads before and after the forcing pulse, s1 and s2 the sensor states
\* after the update of each, angle the electrical angle of s1, w the
\* set_voltage of the forcing pulse, checks the overflow checks of the build
align_outcome(m, p, res1, s1, angle, w, res2, s2, checks) ==
    IF res1 = None
    THEN [motor |-> m, sensor |-> s1, pwm |-> p, reads |-> <<res1>>,
          writes |-> 0, pwm_ok |-> TRUE, result |-> Err("sensor")]
    ELSE IF w.overflow /\ checks
    THEN [motor |-> m, sensor |-> s1, pwm |-> p, reads |-> <<res1>>,
          writes |-> 0, pwm_ok |-> TRUE, result |-> Panic("overflow")]
    ELSE IF ~w.ok
    THEN [motor |-> m, sensor |-> s1, pwm |-> w.pwm, reads |-> <<res1>>,
          writes |-> w.writes, pwm_ok |-> FALSE,
          result |-> Panic("unwrap of a PWM error")]
    ELSE IF res2 = None
    THEN [motor |-> [m EXCEPT !.zero_electrical_angle = None],
          sensor |-> s2, pwm |-> w.pwm, reads |-> <<res1, res2>>,
          writes |-> w.writes, pwm_ok |-> TRUE, result |-> Err("sensor")]
    ELSE IF electrical_angle([m EXCEPT !.zero_electrical_angle = None], s2) # angle
    THEN [motor |-> [m EXCEPT !.zero_electrical_angle =
                         Some(electrical_angle([m EXCEPT !.zero_electrical_angle = None], s2))],
          sensor |-> reset(s2), pwm |-> w.pwm, reads |-> <<res1, res2>>,
          writes |-> w.writes, pwm_ok |-> TRUE, result |-> Ok]
    ELSE [motor |-> [m EXCEPT !.zero_electrical_angle = None],
          sensor |-> s2, pwm |-> w.pwm, reads |-> <<res1, res2>>,
          writes |-> w.writes, pwm_ok |-> TRUE,
          result |-> Panic("Failed to align motor")]

-----------------------------------------------------------------------------
(* The rotor (environment).  Between two reads it moves by less than one   *)
(* turn, forwards (dir = 1) or backwards (dir = -1), to the position whose *)
(* reading is new_angle.                                                   *)

\* the number of times that move passes the 0/2*PI boundary, signed
Crossing(from, new_angle, dir) ==
    IF dir = 1
    THEN (IF RLt(new_angle, from) THEN 1 ELSE 0)
    ELSE (IF RLt(from, new_angle) THEN -1 ELSE 0)

\* the true displacement of a move from reading `from` to reading `to` that
\* passed the boundary c times
Displacement(from, to, c) == RAdd(RSub(to, from), RMul(R(c), TWO_PI))

-----------------------------------------------------------------------------
(* SpecSensor: a Sensor driven by its public operations update and reset,  *)
(* over a rotor that moves between reads.                                  *)

sensorVars == <<sensor, rotor, crossed, moved, recorded>>

driveVars == <<motor, pwm, foc, result, io, ops, open_loop>>

pidVars == <<pid, call, calls, configs>>

vars == <<sensor, rotor, crossed, moved, recorded, lastOp, pid, call, calls, configs,
          motor, pwm, foc, result, io, ops, open_loop>>

NoIo == [reads |-> <<>>, writes |-> 0, pwm_ok |-> TRUE]

NoCall == [target |-> R(0), measure |-> R(0), dt |-> 0]

\* the part of every initial state that is the same in all specifications
InitRest ==
    /\ sensor = SensorStateDefault
    /\ crossed = 0
    /\ moved = R(0)
    /\ recorded = 0
    /\ lastOp = "new"
    /\ pid = PIDControllerNew
    /\ call = NoCall
    /\ calls = 0
    /\ configs = 0
    /\ motor = BLDCNew
    /\ pwm = [a |-> 0, b |-> 0, c |-> 0]
    /\ foc = FocNew
    /\ result = Ok
    /\ io = NoIo
    /\ ops = 0
    /\ open_loop = OpenLoopNew(ZERO)

InitSensor ==
    /\ InitRest
    /\ rotor \in Readings

CountUp(n) == IF n < 3 THEN n + 1 ELSE n

\* Sensor::update with a successful read
SensorUpdate ==
    \E new_angle \in Readings, dir \in {-1, 1}, elapsed \in ElapsedSet :
        LET s == record(sensor, new_angle, elapsed)
            c == Crossing(rotor, new_angle, dir)
        IN  /\ IAbs(s.full_rotations) <= MaxTurns
            /\ rotor' = new_angle
            /\ crossed' = c
            /\ moved' = Displacement(rotor, new_angle, c)
            /\ sensor' = s
            /\ recorded' = CountUp(recorded)
            /\ lastOp' = "record"
            /\ io' = [reads |-> <<Some(new_angle)>>, writes |-> 0, pwm_ok |-> TRUE,
                      elapsed |-> elapsed]
            /\ UNCHANGED <<motor, pwm, foc, result, ops, open_loop>>
            /\ UNCHANGED pidVars

\* Sensor::reset
SensorReset ==
    /\ sensor' = reset(sensor)
    /\ recorded' = 0
    /\ lastOp' = "reset"
    /\ io' = NoIo
    /\ UNCHANGED <<rotor, crossed, moved>>
    /\ UNCHANGED <<motor, pwm, foc, result, ops, open_loop>>
    /\ UNCHANGED pidVars

NextSensor == SensorUpdate \/ SensorReset

SpecSensor == InitSensor /\ [][NextSensor]_vars

-----------------------------------------------------------------------------
(* Claims about SensorState, checked under SpecSensor.                     *)

\* a step that is a record
IsRecord == lastOp' = "record"

\* the change of the continuous angle and of the revolution counter in a step
TotalChange == RSub(total_angle(sensor'), total_angle(sensor))

RotationsChange == sensor'.full_rotations - sensor.full_rotations

\* the raw delta of a record step: new reading - stored angle
RawDelta == RSub(sensor'.angle, sensor.angle)

\* 0.4 * PI, the distance of the threshold of record from a full turn
SmallMove == RSub(TWO_PI, WrapThreshold)

\* C1, as stated: in every record that follows another record and whose raw
\* delta is below 1.6*PI in magnitude, the continuous angle changes by the
\* rotor's true displacement and the revolution counter by the boundary
\* crossings of that move.
C1_RawDeltaBelowThreshold ==
    [][(IsRecord /\ recorded >= 1 /\ RLt(RAbs(RawDelta), WrapThreshold))
         => (TotalChange = moved' /\ RotationsChange = crossed')]_vars

\* C1, amended: in every record that follows another record and reads a
\* rotor that truly moved by less than 0.4*PI since then, the continuous
\* angle changes by exactly that displacement, and the revolution counter by
\* exactly one for each pass of the rotor through the 0/2*PI boundary (none
\* without a pass).
C1_SmallMovesTracked ==
    [][(IsRecord /\ recorded >= 1 /\ RLt(RAbs(moved'), SmallMove))
         => (TotalChange = moved' /\ RotationsChange = crossed')]_vars

\* C1's case: a record that followed another one, of a rotor that moved by
\* less than 0.4*PI through the boundary, has counted the revolution.
C1_Witness ==
    /\ lastOp = "record"
    /\ recorded >= 2
    /\ crossed = 1
    /\ RLt(RAbs(moved), SmallMove)
    /\ sensor.full_rotations = 1


\* C2: a record moves the revolution counter by -sign(delta) when the raw
\* delta exceeds 1.6*PI in magnitude and leaves it otherwise, so by at most
\* one; and the readings 0.1, 6.2 of a fresh state move the counter by -1 and
\* the continuous angle from 0.1 down to 6.2 - 2*PI.
C2_CounterStep ==
    [][IsRecord =>
         /\ RotationsChange =
              (IF RLt(WrapThreshold, RAbs(RawDelta)) THEN -signum(RawDelta) ELSE 0)
         /\ RotationsChange \in {-1, 0, 1}
         /\ (recorded = 1 /\ sensor.angle = Frac(1, 10) /\ sensor'.angle = Frac(31, 5))
              => /\ RotationsChange = -1
                 /\ total_angle(sensor) = Frac(1, 10)
                 /\ total_angle(sensor') = RSub(Frac(31, 5), TWO_PI)
                 /\ RLt(total_angle(sensor'), total_angle(sensor))]_vars

\* C2's case: the state after the readings 0.1 and 6.2 of a fresh state
C2_Witness ==
    /\ lastOp = "record"
    /\ recorded = 2
    /\ sensor.angle = Frac(31, 5)
    /\ sensor.full_rotations = -1
    /\ \E e \in ElapsedSet \cup {DefaultDt} :
         sensor.velocity = per(RSub(RSub(Frac(31, 5), TWO_PI), Frac(1, 10)), e)

\* C3: after any records and resets the stored angle is in [0, 2*PI) and the
\* continuous angle kept in the snapshot is revolutions * 2*PI + stored angle,
\* the continuous angle of the state.
C3_SnapshotTotal ==
    /\ RLe(R(0), sensor.angle)
    /\ RLt(sensor.angle, TWO_PI)
    /\ sensor.prev.total_angle =
         RAdd(RMul(R(sensor.full_rotations), TWO_PI), sensor.angle)

\* C3's case: a record that moved the revolution counter
C3_Witness ==
    /\ lastOp = "record"
    /\ sensor.full_rotations # 0
    /\ sensor.angle # R(0)
    /\ sensor.prev.total_angle = total_angle(sensor)

-----------------------------------------------------------------------------
(* SpecPid: a PIDController built by new() and driven by its builder       *)
(* methods p, i, d, ramp, limit and by compute, with positive elapsed      *)
(* times and non-negative limits and ramps.                                *)

\* compute calls and configuration steps of one run
MaxCalls == 2

MaxConfigs == 3

\* elapsed times given to compute: 0.5 s and 1 s
PidElapsedSet == {500000, 1000000}

Gains == {R(0), R(1)}

Ramps == {R(1)}

Limits == {R(2)}

Targets == {R(0), R(10)}

Measures == {R(0), R(1), R(10)}

InitPid ==
    /\ InitRest
    /\ rotor = R(0)

Configure(c) ==
    /\ configs < MaxConfigs
    /\ pid' = c
    /\ configs' = configs + 1
    /\ lastOp' = "config"
    /\ UNCHANGED <<call, calls>>
    /\ UNCHANGED <<sensorVars, driveVars>>

\* PIDController::p, ::i, ::d
PidGain ==
    \E g \in Gains :
        \/ Configure([pid EXCEPT !.p = g])
        \/ Configure([pid EXCEPT !.i = g])
        \/ Configure([pid EXCEPT !.d = g])

\* PIDController::ramp
PidRamp == \E r \in Ramps : Configure([pid EXCEPT !.output_ramp = Some(r)])

\* PIDController::limit
PidLimit == \E l \in Limits : Configure([pid EXCEPT !.limit = l])

\* PIDController::compute
PidCompute ==
    \E target \in Targets, measure \in Measures, dt \in PidElapsedSet :
        /\ calls < MaxCalls
        /\ pid' = compute(pid, target, measure, dt)
        /\ call' = [target |-> target, measure |-> measure, dt |-> dt]
        /\ calls' = calls + 1
        /\ lastOp' = "compute"
        /\ UNCHANGED configs
        /\ UNCHANGED <<sensorVars, driveVars>>

NextPid == PidGain \/ PidRamp \/ PidLimit \/ PidCompute

SpecPid == InitPid /\ [][NextPid]_vars

-----------------------------------------------------------------------------
(* Claims about PIDController, checked under SpecPid.                      *)

\* a step that is a compute call on pid
IsCompute == lastOp' = "compute" /\ calls' = calls + 1

\* the error and the elapsed seconds of the call of a compute step
CallErr == RSub(call'.target, call'.measure)

CallSeconds == Frac(call'.dt, 1000000)

\* C8: after a compute call the magnitude of the accumulated integral is at
\* most the configured limit.
C8_IntegralWithinLimit ==
    lastOp = "compute" => RLe(RAbs(pid.state.integral), pid.limit)

\* C8's case: a compute whose integral reached the limit and was held there
C8_Witness ==
    /\ lastOp = "compute"
    /\ pid.limit = R(2)
    /\ pid.i = R(1)
    /\ pid.state.err = R(10)
    /\ pid.state.integral = pid.limit

\* C9: with a ramp configured, the output of a compute call differs from the
\* output of the previous call (0 before the first) by at most ramp * elapsed
\* seconds; with no ramp it is clamp(proportional + integral + derivative,
\* -limit, limit).
C9_RampOrRaw ==
    [][IsCompute =>
         /\ calls = 0 => pid.state.output = R(0)
         /\ pid.output_ramp # None =>
              RLe(RAbs(RSub(pid'.state.output, pid.state.output)),
                  RMul(pid.output_ramp[1], CallSeconds))
         /\ pid.output_ramp = None =>
              pid'.state.output =
                clamp(RAdd(RAdd(RMul(pid.p, CallErr), pid'.state.integral),
                           RDiv(RMul(pid.d, RSub(CallErr, pid.state.err)),
                                CallSeconds)),
                      RNeg(pid.limit), pid.limit)]_vars

\* C9's case: a first compute with proportional gain 1, ramp 1 and error 10
\* over 0.5 s returns 0.5, not 10
C9_Witness ==
    /\ lastOp = "compute"
    /\ calls = 1
    /\ pid.output_ramp = Some(R(1))
    /\ pid.p = R(1)
    /\ call = [target |-> R(10), measure |-> R(0), dt |-> 500000]
    /\ pid.state.output = Frac(1, 2)

\* the gains of pid are all zero and the call of the step has target = measured
ZeroGainsZeroError ==
    /\ IsCompute
    /\ pid.p = R(0) /\ pid.i = R(0) /\ pid.d = R(0)
    /\ call'.target = call'.measure

\* C10, as stated: compute with all gains zero and target = measured returns
\* 0 and leaves the accumulated integral unchanged, whatever the prior state.
C10_ZeroGainsReturnZero ==
    [][ZeroGainsZeroError =>
         /\ pid'.state.output = R(0)
         /\ pid'.state.integral = pid.state.integral]_vars

\* C10, amended: compute with all gains zero and target = measured leaves the
\* accumulated integral unchanged when it is within -limit..limit (it is
\* clamped otherwise) and returns that integral, moved by at most
\* ramp * elapsed from the previous output when a ramp is configured; so it
\* returns 0 when the accumulated integral and the previous output are 0.
C10_ZeroGainsReturnIntegral ==
    [][ZeroGainsZeroError =>
         /\ pid'.state.integral = clamp(pid.state.integral, RNeg(pid.limit), pid.limit)
         /\ RLe(RAbs(pid.state.integral), pid.limit) =>
              pid'.state.integral = pid.state.integral
         /\ pid.output_ramp = None => pid'.state.output = pid'.state.integral
         /\ pid.output_ramp # None =>
              \/ pid'.state.output = pid'.state.integral
              \/ RAbs(RSub(pid'.state.output, pid.state.output)) =
                   RMul(pid.output_ramp[1], CallSeconds)
         /\ (pid.state.integral = R(0) /\ pid.state.output = R(0)) =>
              (pid'.state.output = R(0) /\ pid'.state.integral = R(0))]_vars

\* C10's case: a compute with zero gains and zero error on a controller that
\* had accumulated an integral returns that integral
C10_Witness ==
    /\ lastOp = "compute"
    /\ pid.p = R(0) /\ pid.i = R(0) /\ pid.d = R(0)
    /\ call.target = call.measure
    /\ pid.state.integral # R(0)
    /\ pid.state.output = pid.state.integral

-----------------------------------------------------------------------------
(* Spec: a Foc driver on a BLDC motor with a sensor, driven by its public  *)
(* operations: align, tick and the changes of the motion-control mode.     *)
(* A panic ends the task: no operation follows it.                         *)

MaxOps == 2

\* between two reads of the sensor the rotor stays or moves by one grid step,
\* forwards or backwards
RotorMoves == {-1, 0, 1}

Turn(from, k) ==
    LET a == RAdd(from, RMul(Frac(k, Grid), TWO_PI))
    IN  IF RLt(a, R(0)) THEN RAdd(a, TWO_PI)
        ELSE IF RLe(TWO_PI, a) THEN RSub(a, TWO_PI)
        ELSE a

\* the successful results of a read of the angle source; None is a failure
Reads(from) == {Some(Turn(from, k)) : k \in RotorMoves}

\* Delay::new().delay_millis(700) of align, in microseconds
AlignDelay == 700000

\* the PWM channel that fails in an operation: 1, 2, 3 for a, b, c; 0 for none
Channels == 0..3

VelocityTargets == {R(10)}

AngleTargets == {RDiv(PI, R(2))}

TorqueTargets == {R(5)}

RatchetSteps == {2, 4}

LimitPosBounds == {R(0), R(1)}

\* where the rotor rests when the drive is constructed: at the reading 0,
\* half a turn from it on the grid, a hundredth of a radian below a quarter
\* turn, or at 0.1 rad
RestReadings ==
    {GridAngle(0), GridAngle(Grid \div 2),
     RSub(RDiv(PI, R(2)), Frac(1, 100)), Frac(1, 10)}

InitDrive ==
    /\ InitRest
    /\ rotor \in RestReadings

\* an operation starts when no panic has ended the task
Running == result.kind # "Panic" /\ ops < MaxOps

\* the time between two records of the sensor of the drive, in microseconds
DriveElapsed == {500}

\* the inputs of a tick: the result of the sensor read, the time since the
\* last record and the failing PWM channel; an input that the handler does
\* not come to use is left at a fixed value
TickInputs ==
    {[res |-> None, elapsed |-> 0, failAt |-> 0]}
    \cup [res : Reads(rotor), elapsed : DriveElapsed, failAt : Channels]

\* the inputs of an align: the results of the reads before and after the
\* forcing pulse, the time since the last record and the failing PWM channel
AlignInputs ==
    {[res1 |-> None, elapsed1 |-> 0, failAt |-> 0, res2 |-> None]}
    \cup [res1 : Reads(rotor), elapsed1 : DriveElapsed, failAt : 1..3, res2 : {None}]
    \cup UNION {[res1 : {res1}, elapsed1 : DriveElapsed, failAt : {0},
                 res2 : {None} \cup Reads(res1[1])] : res1 \in Reads(rotor)}

\* the records since the state was created or reset, after the reads of an
\* operation
Recorded(n, reads) ==
    IF reads = <<>> THEN n
    ELSE IF reads[1] = None THEN n
    ELSE IF Len(reads) = 1 THEN CountUp(n)
    ELSE IF reads[2] = None THEN CountUp(n)
    ELSE CountUp(CountUp(n))

\* where the rotor is after the reads of an operation
RotorAfter(reads) ==
    IF Len(reads) = 2 /\ reads[2] # None THEN reads[2][1]
    ELSE IF reads # <<>> /\ reads[1] # None THEN reads[1][1]
    ELSE rotor

\* BLDC::align.  Each \E over a one-element set names an intermediate value
\* of the handler.
Align ==
    /\ Running
    /\ \E i \in AlignInputs :
       \E s1 \in {update(sensor, i.res1, i.elapsed1)} :
       \E angle \in {electrical_angle(motor, s1)} :
       \E vol \in {align_voltage(motor)} :
       \E w \in {set_voltage(pwm, vol, f(motor.voltage_power_supply), i.failAt)} :
       \E s2 \in {update(s1, i.res2, AlignDelay)} :
       \E checks \in OverflowChecks(w.overflow) :
       \E o \in {align_outcome(motor, pwm, i.res1, s1, angle, w, i.res2, s2, checks)} :
           /\ motor' = o.motor
           /\ sensor' = o.sensor
           /\ pwm' = o.pwm
           /\ result' = o.result
           /\ io' = [reads |-> o.reads, writes |-> o.writes, pwm_ok |-> o.pwm_ok]
           /\ rotor' = RotorAfter(o.reads)
           /\ recorded' = IF o.result = Ok THEN 0 ELSE Recorded(recorded, o.reads)
    /\ ops' = ops + 1
    /\ lastOp' = "align"
    /\ UNCHANGED <<foc, crossed, moved>>
    /\ UNCHANGED <<pidVars, open_loop>>

\* Foc::tick
FocTick ==
    /\ Running
    /\ \E i \in TickInputs :
       \E s1 \in {update(sensor, i.res, i.elapsed)} :
       \E ctl \in {control(foc, motor, s1)} :
       \E v \in {phase_voltage(motor, f(ctl.qd[1]), f(ctl.qd[2]),
                               electrical_angle(motor, s1))} :
       \E w \in {set_voltage(pwm, v, f(motor.voltage_power_supply), i.failAt)} :
       \E checks \in OverflowChecks(w.overflow) :
       \E o \in {tick_outcome(foc, pwm, i.res, s1, ctl, w, checks)} :
           /\ IAbs(o.sensor.full_rotations) <= MaxTurns
           /\ foc' = o.foc
           /\ sensor' = o.sensor
           /\ pwm' = o.pwm
           /\ result' = o.result
           /\ io' = [reads |-> <<i.res>>, writes |-> o.writes, pwm_ok |-> o.pwm_ok,
                     clocks |-> update_clock_reads(i.res)]
           /\ rotor' = RotorAfter(<<i.res>>)
           /\ recorded' = Recorded(recorded, <<i.res>>)
    /\ ops' = ops + 1
    /\ lastOp' = "tick"
    /\ UNCHANGED <<motor, crossed, moved>>
    /\ UNCHANGED <<pidVars, open_loop>>

\* a change of the motion-control mode that gives the driver fc
SetMode(fc, outcome) ==
    /\ Running
    /\ foc' = fc
    /\ result' = outcome
    /\ io' = NoIo
    /\ ops' = ops + 1
    /\ lastOp' = "mode"
    /\ UNCHANGED <<motor, pwm>>
    /\ UNCHANGED <<sensorVars, pidVars, open_loop>>

\* Foc::to_velocity
ToVelocity ==
    \E target \in VelocityTargets :
        SetMode([foc EXCEPT !.motion_control = MCVelocity(target)], Ok)

\* Foc::to_angle
ToAngle ==
    \E target \in AngleTargets :
        SetMode([foc EXCEPT !.motion_control = MCAngle(target)], Ok)

\* Foc::to_torque
ToTorque ==
    \E target \in TorqueTargets :
        SetMode([foc EXCEPT !.motion_control = MCTorque(target)], Ok)

\* Foc::to_ratchet
ToRatchet == \E num_step \in RatchetSteps : SetMode(to_ratchet(foc, num_step), Ok)

\* Foc::to_limit_pos: assert!(low < high) panics when it does not hold
ToLimitPos ==
    \E low \in LimitPosBounds, high \in LimitPosBounds :
        IF RLt(low, high)
        THEN SetMode([foc EXCEPT !.motion_control = MCLimitPos(low, high)], Ok)
        ELSE SetMode(foc, Panic("assertion failed: low < high"))

Next ==
    \/ Align
    \/ FocTick
    \/ ToVelocity
    \/ ToAngle
    \/ ToTorque
    \/ ToRatchet
    \/ ToLimitPos

Spec == InitDrive /\ [][Next]_vars

-----------------------------------------------------------------------------
(* Claims about Foc::tick and BLDC::align, checked under Spec.             *)

\* a step that is a tick, and a step that is an align
IsTick == lastOp' = "tick" /\ ops' = ops + 1

IsAlign == lastOp' = "align" /\ ops' = ops + 1

\* the sensor read of the tick of this step failed
TickReadFailed == IsTick /\ io'.reads = <<None>>

\* C4 (as stated): a sensor-read failure or a PWM-write failure during a tick
\* is returned to the caller as the error value of that tick; the task is not
\* aborted.  The code panics on the sensor failure.
C4_FailureReturned ==
    [][(TickReadFailed \/ (IsTick /\ ~io'.pwm_ok)) => result'.kind = "Err"]_vars

\* C5: when the angle source fails during a tick, the sensor state, both PID
\* states, the motion-control mode and the three committed duty cycles are
\* what they were before the tick, and the sensor is read once
C5_FailedReadMutatesNothing ==
    [][TickReadFailed =>
          /\ sensor' = sensor
          /\ foc' = foc
          /\ pwm' = pwm
          /\ motor' = motor
          /\ Len(io'.reads) = 1
          /\ io'.writes = 0]_vars

\* a tick whose read failed, on a sensor state that a record has changed and
\* duty cycles that a tick has written
C5_Witness ==
    /\ lastOp = "tick"
    /\ io.reads = <<None>>
    /\ sensor # SensorStateDefault
    /\ pwm # [a |-> 0, b |-> 0, c |-> 0]
    /\ foc.velocity_pid.state # PIDControllerNew.state

\* the electrical angle of the rotor at the reading r, free of any offset
RotorElectrical(r) == normalize_angle(RMul(r, R(POLE)))

\* both reads of the align of this step succeeded
AlignReadBoth == IsAlign /\ Len(io'.reads) = 2 /\ io'.reads[2] # None

\* C6 (as stated): on every align, first or repeated, in which both reads
\* succeed: if the rotor's electrical angle after the forcing pulse is the
\* same as before it, align ends in the alignment-failure panic and sets no
\* offset; otherwise the post-pulse electrical angle becomes the offset.  A
\* repeated align compares an angle taken with the old offset with one taken
\* without it.
C6_UnmovedRotorFails ==
    [][AlignReadBoth =>
          IF RotorElectrical(io'.reads[2][1]) = RotorElectrical(io'.reads[1][1])
          THEN /\ result' = Panic("Failed to align motor")
               /\ motor'.zero_electrical_angle = None
          ELSE /\ result' = Ok
               /\ motor'.zero_electrical_angle =
                      Some(RotorElectrical(io'.reads[2][1]))]_vars

\* C7: immediately after align returns successfully the revolution counter is
\* 0 and the velocity estimate is zero
C7_AlignResetsSensor ==
    [][(IsAlign /\ result' = Ok) =>
          /\ sensor'.full_rotations = 0
          /\ sensor'.velocity = ZERO]_vars

\* a successful align whose forcing pulse took the rotor over the 0/2*PI
\* boundary, so that the record after the pulse changed the counter
C7_Witness ==
    /\ lastOp = "align"
    /\ result = Ok
    /\ RLt(WrapThreshold, RAbs(RSub(io.reads[2][1], io.reads[1][1])))

-----------------------------------------------------------------------------
(* More claims about PIDController, checked under SpecPid.                 *)

\* a compute step on a controller with integral and derivative gain 0 and no
\* ramp
ProportionalOnly ==
    /\ IsCompute
    /\ pid.i = R(0) /\ pid.d = R(0)
    /\ pid.output_ramp = None

\* C11 (as stated): with integral and derivative gains 0 and no ramp, every
\* compute returns clamp(Kp * (target - measured), -limit, limit),
\* independently of earlier calls.  An integral accumulated before the
\* integral gain was set to 0 is still added.
C11_ProportionalOnly ==
    [][ProportionalOnly =>
         pid'.state.output =
           clamp(RMul(pid.p, CallErr), RNeg(pid.limit), pid.limit)]_vars

\* C11 (amended): with integral and derivative gains 0 and no ramp, a compute
\* returns clamp(Kp * (target - measured) + accumulated integral, -limit,
\* limit), the integral being clamped to the limit first; so it returns
\* clamp(Kp * (target - measured), -limit, limit) when the accumulated
\* integral is 0, whatever the errors and outputs of earlier calls were
C11_ProportionalPlusIntegral ==
    [][ProportionalOnly =>
         /\ pid'.state.output =
              clamp(RAdd(RMul(pid.p, CallErr),
                         clamp(pid.state.integral, RNeg(pid.limit), pid.limit)),
                    RNeg(pid.limit), pid.limit)
         /\ pid.state.integral = R(0) =>
              pid'.state.output =
                clamp(RMul(pid.p, CallErr), RNeg(pid.limit), pid.limit)]_vars

\* C11's case: Kp = 1, elapsed 1 s, target 10; after the call with measured 0
\* (error 10) the call with measured 1 returns 9
C11_Witness ==
    /\ lastOp = "compute"
    /\ calls = 2
    /\ pid.p = R(1) /\ pid.i = R(0) /\ pid.d = R(0)
    /\ pid.output_ramp = None
    /\ pid.state.integral = R(0)
    /\ call = [target |-> R(10), measure |-> R(1), dt |-> 1000000]
    /\ pid.state.output = R(9)

-----------------------------------------------------------------------------
(* SpecPwm: a ThreePhasePwm driven by its public operations set_voltage    *)
(* and set_duty.                                                           *)

\* the phase voltages and the supply ceilings given to set_voltage
Volts == {R(-400), R(-1), R(0), R(6), R(12), R(13), R(400)}

VoltTriples == {<<f(a), f(b), f(R(6))>> : a \in Volts, b \in {R(0), R(12)}}

VoltMaxes == {R(12)}

\* the duty cycles given to set_duty
DutyTriples == {<<0, 50, 100>>, <<25, 25, 25>>}

InitPwm ==
    /\ InitRest
    /\ rotor = R(0)

\* ThreePhasePwm::set_voltage
PwmSetVoltage ==
    /\ result.kind # "Panic"
    /\ \E duty \in VoltTriples, volt_max \in VoltMaxes, failAt \in Channels :
       \E w \in {set_voltage(pwm, duty, f(volt_max), failAt)} :
       \E checks \in OverflowChecks(w.overflow) :
           /\ pwm' = IF checks THEN pwm ELSE w.pwm
           /\ result' = IF checks THEN Panic("overflow")
                        ELSE IF w.ok THEN Ok ELSE Err("pwm")
           /\ io' = [reads |-> <<>>,
                     writes |-> IF checks THEN 0 ELSE w.writes,
                     pwm_ok |-> checks \/ w.ok,
                     failAt |-> failAt,
                     volt |-> duty,
                     volt_max |-> f(volt_max),
                     duty |-> percents(duty, f(volt_max))]
    /\ lastOp' = "set_voltage"
    /\ UNCHANGED <<motor, foc, ops>>
    /\ UNCHANGED <<sensorVars, pidVars, open_loop>>

\* ThreePhasePwm::set_duty
PwmSetDuty ==
    /\ result.kind # "Panic"
    /\ \E duty \in DutyTriples, failAt \in Channels :
       \E w \in {set_duty(pwm, duty, failAt)} :
           /\ pwm' = w.pwm
           /\ result' = IF w.ok THEN Ok ELSE Err("pwm")
           /\ io' = [reads |-> <<>>, writes |-> w.writes, pwm_ok |-> w.ok,
                     failAt |-> failAt, duty |-> duty]
    /\ lastOp' = "set_duty"
    /\ UNCHANGED <<motor, foc, ops>>
    /\ UNCHANGED <<sensorVars, pidVars, open_loop>>

NextPwm == PwmSetVoltage \/ PwmSetDuty

SpecPwm == InitPwm /\ [][NextPwm]_vars

-----------------------------------------------------------------------------
(* Claims about ThreePhasePwm, checked under SpecPwm.                      *)

\* the channels as fields of pwm and as positions of a duty triple
ChannelDuty(p, k) == IF k = 1 THEN p.a ELSE IF k = 2 THEN p.b ELSE p.c

IsSetVoltage == lastOp' = "set_voltage"

\* C12: set_voltage commits the duty cycles in the order a, b, c; when a
\* channel fails it returns that channel's error, the channels before it hold
\* the new duty and the channels after it are not written
C12_NoRollback ==
    [][(IsSetVoltage /\ result'.kind # "Panic") =>
          /\ io'.failAt = 0 =>
               /\ result' = Ok
               /\ io'.writes = 3
               /\ \A k \in 1..3 : ChannelDuty(pwm', k) = io'.duty[k]
          /\ io'.failAt # 0 =>
               /\ result' = Err("pwm")
               /\ io'.writes = io'.failAt
               /\ \A k \in 1..3 :
                    /\ k < io'.failAt => ChannelDuty(pwm', k) = io'.duty[k]
                    /\ k > io'.failAt => ChannelDuty(pwm', k) = ChannelDuty(pwm, k)]_vars

\* a set_voltage in which channel b failed: a holds its new duty, which differs
\* from the old one, and c holds its old duty, which differs from the new one
C12_Witness ==
    /\ lastOp = "set_voltage"
    /\ result = Err("pwm")
    /\ io.failAt = 2
    /\ pwm.a = io.duty[1]
    /\ pwm.b # io.duty[2]
    /\ pwm.c # io.duty[3]

\* C13: volt_to_percent(V, Vmax) with Vmax > 0 is 0 for every V <= 0, 100 for
\* every V >= Vmax and within [0, 100] otherwise, so every set_voltage passes
\* duties within [0, 100] to the channels
C13_PercentClamped ==
    [][IsSetVoltage =>
          /\ result'.kind # "Panic"
          /\ \A k \in 1..3 :
               /\ io'.duty[k] \in 0..100
               /\ io'.volt[k] <= 0 => io'.duty[k] = 0
               /\ io'.volt[k] >= io'.volt_max => io'.duty[k] = 100]_vars

\* the part of C13 that the code keeps: a set_voltage that returns passes
\* duties within [0, 100]
C13_DutyInRange ==
    [][(IsSetVoltage /\ result'.kind # "Panic") =>
          \A k \in 1..3 : io'.duty[k] \in 0..100]_vars

-----------------------------------------------------------------------------
(* Claims about the modes of Foc::tick, checked under Spec.                *)

\* the tick of this step read the sensor in the mode `kind`
TickIn(kind) ==
    /\ IsTick
    /\ io'.reads # <<None>>
    /\ foc.motion_control.kind = kind

\* the tick of this step wrote no duty cycle and left both PIDs alone
TickIdle ==
    /\ io'.writes = 0
    /\ pwm' = pwm
    /\ foc' = foc

\* C14: in Angle mode a tick with |target - continuous angle| < 0.03 rad,
\* taken after the sensor refresh of that tick, writes no duty cycle and leaves
\* both PID states unchanged
C14_AngleDeadBand ==
    [][(/\ TickIn("Angle")
        /\ RLt(RAbs(RSub(foc.motion_control.target, total_angle(sensor'))),
               Frac(3, 100)))
         => (TickIdle /\ result' = Ok)]_vars

\* a tick in Angle mode with target PI/2 at the continuous angle PI/2 - 0.01
C14_Witness ==
    /\ lastOp = "tick"
    /\ io.reads # <<None>>
    /\ foc.motion_control = MCAngle(RDiv(PI, R(2)))
    /\ total_angle(sensor) = RSub(RDiv(PI, R(2)), Frac(1, 100))
    /\ io.writes = 0
    /\ result = Ok

\* the distance of the Ratchet target of the sensor state s from its angle
RatchetErr(mc, s) ==
    RAbs(RSub(ratchet_target(total_angle(s), mc.rad_per_step), total_angle(s)))

\* C15: in Ratchet mode with N steps the target of a tick is the multiple of
\* 2*PI/N nearest to the continuous angle, at most half a step from it; N = 4
\* at 0.1 rad gives the target 0; a tick with |target - angle| < 0.01 rad
\* writes no duty cycle and leaves both PID states unchanged
C15_RatchetNearestStep ==
    [][TickIn("Ratchet") =>
         LET mc == foc.motion_control
             step == mc.rad_per_step
             total == total_angle(sensor')
             target == ratchet_target(total, step)
         IN  /\ step = RDiv(TWO_PI, R(mc.steps))
             /\ RDiv(target, step)[2] = 1
             /\ RLe(RAbs(RSub(target, total)), RDiv(step, R(2)))
             /\ (mc.steps = 4 /\ total = Frac(1, 10)) => target = R(0)
             /\ RLt(RatchetErr(mc, sensor'), Frac(1, 100)) => (TickIdle /\ result' = Ok)
             /\ (~RLt(RatchetErr(mc, sensor'), Frac(1, 100)) /\ io'.pwm_ok /\ result' = Ok)
                   => io'.writes = 3]_vars

\* a tick in Ratchet mode with 4 steps at the continuous angle 0.1 rad
C15_Witness ==
    /\ lastOp = "tick"
    /\ io.reads # <<None>>
    /\ foc.motion_control.kind = "Ratchet"
    /\ foc.motion_control.steps = 4
    /\ total_angle(sensor) = Frac(1, 10)
    /\ ratchet_target(total_angle(sensor), foc.motion_control.rad_per_step) = R(0)
    /\ io.writes = 3

\* a tick in Ratchet mode inside the dead-band
C15_DeadBandReached ==
    /\ lastOp = "tick"
    /\ io.reads # <<None>>
    /\ foc.motion_control.kind = "Ratchet"
    /\ RLt(RatchetErr(foc.motion_control, sensor), Frac(1, 100))
    /\ io.writes = 0

\* C16 (as stated): in Ratchet mode, on every tick outside the dead-band, the
\* velocity setpoint that the angle PID produces and the velocity PID consumes
\* has magnitude at most velocity_limit.  The code clamps the output of the
\* velocity PID, not its setpoint.
C16_SetpointWithinVelocityLimit ==
    [][(/\ TickIn("Ratchet")
        /\ ~RLt(RatchetErr(foc.motion_control, sensor'), Frac(1, 100)))
         => RLe(RAbs(foc'.angle_pid.state.output), motor.velocity_limit)]_vars

\* C17: a tick in LimitPos mode ends in a panic, the one of the unimplemented
\* mode when the sensor was read, and commits no duty cycle
C17_LimitPosPanics ==
    [][(IsTick /\ foc.motion_control.kind = "LimitPos") =>
          /\ result'.kind = "Panic"
          /\ io'.reads # <<None>> => result' = Panic("not yet implemented")
          /\ io'.writes = 0
          /\ pwm' = pwm]_vars

\* a tick in LimitPos mode that read the sensor
C17_Witness ==
    /\ lastOp = "tick"
    /\ io.reads # <<None>>
    /\ foc.motion_control.kind = "LimitPos"
    /\ RLt(foc.motion_control.low, foc.motion_control.high)
    /\ result = Panic("not yet implemented")

-----------------------------------------------------------------------------
(* SpecQd: a BLDC assembled by its configuration methods, its sensor       *)
(* refreshed, and Foc::calculate_qd called on it.                          *)

\* the sensor refreshes before calculate_qd
MaxQdRecords == 1

VoltageLimits == {R(6)}

KvRatings == {R(220)}

PhaseResistances == {Frac(1, 2)}

PhaseInductances == {Frac(1, 1000)}

\* the targets of calculate_qd, in rad/s
QdTargets == {R(5), R(20), R(-20)}

InitQd ==
    /\ InitRest
    /\ rotor = R(0)

\* a configuration method of BLDC that returns the motor m
Configured(m) ==
    /\ motor' = m
    /\ io' = NoIo
    /\ lastOp' = "config"
    /\ UNCHANGED <<pwm, foc, result, ops>>
    /\ UNCHANGED <<sensorVars, pidVars, open_loop>>

\* BLDC::with_voltage_limit
WithVoltageLimit ==
    \E limit \in VoltageLimits : Configured([motor EXCEPT !.voltage_limit = limit])

\* BLDC::with_kv
WithKv == \E kv \in KvRatings : Configured([motor EXCEPT !.kv = Some(kv)])

\* BLDC::with_phase_resistance
WithPhaseResistance ==
    \E resistance \in PhaseResistances :
        Configured([motor EXCEPT !.phase_resistance = Some(resistance)])

\* BLDC::with_phase_inductance
WithPhaseInductance ==
    \E inductance \in PhaseInductances :
        Configured([motor EXCEPT !.phase_inductance = Some(inductance)])

\* Sensor::update with a successful read, before the motor is driven
QdSensorUpdate ==
    /\ recorded < MaxQdRecords
    /\ \E new_angle \in ScenarioReadings, elapsed \in ElapsedSet :
       \E s \in {update(sensor, Some(new_angle), elapsed)} :
           /\ IAbs(s.full_rotations) <= MaxTurns
           /\ sensor' = s
           /\ rotor' = new_angle
           /\ io' = [reads |-> <<Some(new_angle)>>, writes |-> 0, pwm_ok |-> TRUE]
    /\ recorded' = recorded + 1
    /\ lastOp' = "record"
    /\ UNCHANGED <<crossed, moved>>
    /\ UNCHANGED <<motor, pwm, foc, result, ops>>
    /\ UNCHANGED <<pidVars, open_loop>>

\* Foc::calculate_qd
CalculateQd ==
    /\ \E target \in QdTargets :
       \E qd \in {calculate_qd(motor, sensor, target)} :
           io' = [reads |-> <<>>, writes |-> 0, pwm_ok |-> TRUE,
                  target |-> target, qd |-> qd]
    /\ lastOp' = "calculate_qd"
    /\ UNCHANGED <<motor, pwm, foc, result, ops>>
    /\ UNCHANGED <<sensorVars, pidVars, open_loop>>

NextQd ==
    \/ WithVoltageLimit
    \/ WithKv
    \/ WithPhaseResistance
    \/ WithPhaseInductance
    \/ QdSensorUpdate
    \/ CalculateQd

SpecQd == InitQd /\ [][NextQd]_vars

-----------------------------------------------------------------------------
(* Claims about Foc::calculate_qd, checked under SpecQd.                   *)

IsCalculateQd == lastOp' = "calculate_qd"

\* no Kv, phase resistance or phase inductance is configured on the motor m
Uncalibrated(m) ==
    /\ m.kv = None
    /\ m.phase_resistance = None
    /\ m.phase_inductance = None

\* C18: calculate_qd returns q and d of magnitude at most voltage_limit; with
\* no Kv, phase resistance or phase inductance configured it returns
\* q = clamp(target, -voltage_limit, voltage_limit) and d = 0, whatever the
\* measured velocity
C18_QdWithinVoltageLimit ==
    [][IsCalculateQd =>
          /\ RLe(RAbs(io'.qd[1]), motor.voltage_limit)
          /\ RLe(RAbs(io'.qd[2]), motor.voltage_limit)
          /\ Uncalibrated(motor) =>
               /\ io'.qd[1] = clamp(io'.target, RNeg(motor.voltage_limit),
                                    motor.voltage_limit)
               /\ io'.qd[2] = R(0)]_vars

\* calculate_qd on a turning motor with an inductance, where the unclamped d
\* is beyond the voltage limit
C18_Witness ==
    /\ lastOp = "calculate_qd"
    /\ motor.phase_inductance # None
    /\ sensor.velocity # ZERO
    /\ RLt(motor.voltage_limit,
           RAbs(RMul(RMul(RMul(io.target, sensor.velocity), R(POLE)),
                     motor.phase_inductance[1])))
    /\ RAbs(io.qd[2]) = motor.voltage_limit

\* calculate_qd with target 5 rad/s on a turning motor with no Kv, phase
\* resistance or phase inductance
C18_UncalibratedReached ==
    /\ lastOp = "calculate_qd"
    /\ Uncalibrated(motor)
    /\ sensor.velocity # ZERO
    /\ io.target = R(5)
    /\ io.qd = <<R(5), R(0)>>

\* the back-EMF compensation of the motor m at the sensor state s
BackEmf(m, s) ==
    IF m.kv = None THEN R(0)
    ELSE RDiv(RDiv(s.velocity, RMul(m.kv[1], SQRT_3)), RPM_TO_RADS)

\* C19 (as stated): whenever Kv is configured, the q voltage includes the
\* back-EMF term measured_velocity / (Kv * sqrt 3) / RPM_TO_RADS before
\* clamping, whether or not a phase resistance is configured; without Kv the
\* term is 0.  The code adds the term only when a phase resistance is
\* configured.
C19_BackEmfWheneverKv ==
    [][IsCalculateQd =>
          io'.qd[1] =
            clamp(RAdd(IF motor.phase_resistance = None THEN io'.target
                       ELSE RMul(io'.target, motor.phase_resistance[1]),
                       BackEmf(motor, sensor)),
                  RNeg(motor.voltage_limit), motor.voltage_limit)]_vars

-----------------------------------------------------------------------------
(* SpecOpenLoop: an OpenLoop driver over the motor, driven by its public   *)
(* operations set_velocity, update_velocity and tick.                      *)

\* the ticks of the open-loop driver
MaxOpenLoopTicks == 2

\* the time between two ticks, in microseconds
OpenLoopDts == {100000}

OpenLoopVelocities == {R(10)}

OpenLoopDeltas == {R(-5)}

InitOpenLoop ==
    /\ InitRest
    /\ rotor = R(0)

OpenLoopRunning == result.kind # "Panic"

\* an operation of OpenLoop that only changes the driver
OpenLoopSet(ol) ==
    /\ OpenLoopRunning
    /\ open_loop' = ol
    /\ io' = NoIo
    /\ lastOp' = "velocity"
    /\ UNCHANGED <<motor, pwm, foc, result, ops>>
    /\ UNCHANGED <<sensorVars, pidVars>>

\* OpenLoop::set_velocity
SetVelocity ==
    \E velocity \in OpenLoopVelocities : OpenLoopSet(set_velocity(open_loop, velocity))

\* OpenLoop::update_velocity, while the velocity stays forwards
UpdateVelocity ==
    \E delta \in OpenLoopDeltas :
        /\ RLe(R(0), RAdd(open_loop.velocity, delta))
        /\ OpenLoopSet(update_velocity(open_loop, delta))

\* the inputs of an open-loop tick: the result of the sensor read, the time
\* since the last record, the time since the last tick and the failing PWM
\* channel
OpenLoopInputs ==
    {[res |-> None, elapsed |-> 0, dt |-> dt, failAt |-> 0] : dt \in OpenLoopDts}
    \cup [res : Reads(rotor), elapsed : DriveElapsed, dt : OpenLoopDts, failAt : Channels]

\* OpenLoop::tick
OpenLoopTick ==
    /\ OpenLoopRunning
    /\ ops < MaxOpenLoopTicks
    /\ \E i \in OpenLoopInputs :
       \E s1 \in {update(sensor, i.res, i.elapsed)} :
       \E shaft \in {shaft_angle_after(open_loop, i.dt)} :
       \E v \in {open_loop_voltage(motor, shaft)} :
       \E w \in {set_voltage(pwm, v, f(motor.voltage_limit), i.failAt)} :
       \E checks \in OverflowChecks(w.overflow) :
       \E o \in {open_loop_outcome(open_loop, pwm, sensor, i.res, s1, shaft, w, checks)} :
           /\ IAbs(o.sensor.full_rotations) <= MaxTurns
           /\ open_loop' = o.open_loop
           /\ sensor' = o.sensor
           /\ pwm' = o.pwm
           /\ result' = o.result
           /\ io' = [reads |-> <<i.res>>, writes |-> o.writes, pwm_ok |-> o.pwm_ok,
                     dt |-> i.dt, failAt |-> i.failAt,
                     clocks |-> open_loop_clock_reads(i.res)]
           /\ rotor' = RotorAfter(<<i.res>>)
           /\ recorded' = Recorded(recorded, <<i.res>>)
    /\ ops' = ops + 1
    /\ lastOp' = "open_loop_tick"
    /\ UNCHANGED <<motor, foc, crossed, moved>>
    /\ UNCHANGED pidVars

NextOpenLoop == SetVelocity \/ UpdateVelocity \/ OpenLoopTick

SpecOpenLoop == InitOpenLoop /\ [][NextOpenLoop]_vars

-----------------------------------------------------------------------------
(* Claims about OpenLoop::tick, checked under SpecOpenLoop.                *)

IsOpenLoopTick == lastOp' = "open_loop_tick" /\ ops' = ops + 1

\* the duties of the voltages that an open-loop tick of dt microseconds
\* commits, from the shaft angle, the target velocity, the pole pairs and the
\* voltage limits alone
OpenLoopDuties(ol, m, dt) ==
    percents(open_loop_voltage(m, shaft_angle_after(ol, dt)), f(m.voltage_limit))

\* C20 (as stated): OpenLoop::tick uses no sensor feedback: whatever the angle
\* source returns, a failure included, a tick in which no PWM channel fails
\* completes and commits the phase voltages, which depend only on the
\* integrated shaft angle, the target velocity, the elapsed time, the pole
\* pairs and the voltage limits.  The code unwraps the sensor update first.
C20_NoSensorFeedback ==
    [][(IsOpenLoopTick /\ io'.failAt = 0) =>
          /\ result' = Ok
          /\ io'.writes = 3
          /\ pwm' = [a |-> OpenLoopDuties(open_loop, motor, io'.dt)[1],
                     b |-> OpenLoopDuties(open_loop, motor, io'.dt)[2],
                     c |-> OpenLoopDuties(open_loop, motor, io'.dt)[3]]]_vars

\* the part of C20 that the code keeps: a tick that read the sensor commits
\* voltages in which the reading has no part
C20_VoltagesFromShaftAngle ==
    [][(IsOpenLoopTick /\ io'.failAt = 0 /\ io'.reads # <<None>>) =>
          /\ result' = Ok
          /\ io'.writes = 3
          /\ pwm' = [a |-> OpenLoopDuties(open_loop, motor, io'.dt)[1],
                     b |-> OpenLoopDuties(open_loop, motor, io'.dt)[2],
                     c |-> OpenLoopDuties(open_loop, motor, io'.dt)[3]]]_vars

-----------------------------------------------------------------------------
(* Claims about the clock and the sensor record of a tick.                 *)

\* the sensor state of this step is one record of the reading of the tick on
\* the state of before
RecordedOnce ==
    /\ Len(io'.reads) = 1
    /\ sensor' = record(sensor, io'.reads[1][1], sensor'.prev.dt)

\* C21 (as stated): every tick, of Foc and of OpenLoop, that reads the sensor
\* reads the wall clock exactly once, inside the sensor record, and mutates
\* the SensorState exactly once.  OpenLoop::tick reads the clock again after
\* the record.
C21_OneClockRead ==
    [][((IsTick \/ IsOpenLoopTick) /\ io'.reads # <<None>>) =>
          /\ io'.clocks = 1
          /\ RecordedOnce]_vars

\* the part of C21 about Foc::tick: one clock read, one record, and the PIDs
\* of the Velocity mode and of the Angle mode outside its dead-band compute
\* with the elapsed time stored by that record
C21_FocOneClockRead ==
    [][(IsTick /\ io'.reads # <<None>>) =>
          /\ io'.clocks = 1
          /\ RecordedOnce
          /\ foc.motion_control.kind = "Velocity" =>
               foc'.velocity_pid =
                 compute(foc.velocity_pid, foc.motion_control.target,
                         sensor'.velocity, sensor'.prev.dt)
          /\ (foc.motion_control.kind = "Angle" /\ foc' # foc) =>
               /\ foc'.angle_pid =
                    compute(foc.angle_pid, foc.motion_control.target,
                            total_angle(sensor'), sensor'.prev.dt)
               /\ foc'.velocity_pid =
                    compute(foc.velocity_pid, foc'.angle_pid.state.output,
                            sensor'.velocity, sensor'.prev.dt)]_vars

-----------------------------------------------------------------------------
(* Claims about BLDC::electrical_angle, checked under Spec.                *)

\* x is in [0, 2*PI)
InTurn(x) == RLe(R(0), x) /\ RLt(x, TWO_PI)

\* C22: electrical_angle() is in [0, 2*PI) for every stored mechanical angle
\* in [0, 2*PI) and every calibration offset, an absent one counted as 0, and
\* a calibration offset set by align is in [0, 2*PI)
C22_ElectricalAngleInTurn ==
    /\ InTurn(sensor.angle)
    /\ InTurn(electrical_angle(motor, sensor))
    /\ motor.zero_electrical_angle # None => InTurn(motor.zero_electrical_angle[1])

\* a tick on an aligned motor whose mechanical angle times the pole pairs is
\* below the calibration offset: the remainder of the difference is negative
C22_Witness ==
    /\ lastOp = "tick"
    /\ io.reads # <<None>>
    /\ motor.zero_electrical_angle # None
    /\ motor.zero_electrical_angle[1] # R(0)
    /\ RLt(RMul(sensor.angle, R(POLE)), motor.zero_electrical_angle[1])

-----------------------------------------------------------------------------
(* More claims about SensorState, checked under SpecSensor.                *)

\* C23: on each record the velocity is (continuous angle after this record -
\* continuous angle stored by the previous record) / the interval stored by
\* the previous record, which is 1 ms after creation or reset, and not the
\* time elapsed since the previous record; the interval stored for the next
\* record is the time elapsed since the previous record
C23_VelocityOverPreviousInterval ==
    [][IsRecord =>
         /\ sensor'.velocity =
              per(RSub(total_angle(sensor'), sensor.prev.total_angle), sensor.prev.dt)
         /\ recorded = 0 => sensor.prev.dt = DefaultDt
         /\ recorded >= 1 => sensor.prev.dt = io.elapsed
         /\ sensor'.prev.dt = io'.elapsed]_vars

\* a record that follows another after 500 us, while the interval before that
\* one was 1000 us: its velocity is the one over 1000 us
C23_Witness ==
    /\ lastOp = "record"
    /\ recorded = 1
    /\ io.elapsed = 500
    /\ sensor.velocity # ZERO
    /\ sensor.velocity = per(total_angle(sensor), DefaultDt)
    /\ sensor.velocity # per(total_angle(sensor), io.elapsed)

-----------------------------------------------------------------------------
(* SpecPhase: BLDC::phase_voltage applied to the q and d voltages and the  *)
(* electrical angles of bounded sets, on a motor whose supply voltage is   *)
(* configured.                                                             *)

PowerSupplies == {R(5), R(12)}

\* the q and d voltages given to phase_voltage, as I16F16
PhaseVoltsQ == {f(R(-6)), f(R(0)), f(Frac(5, 2)), f(R(3)), f(R(6))}

PhaseVoltsD == {f(R(0)), f(R(1))}

PhaseAngles == Readings

InitPhase ==
    /\ InitRest
    /\ rotor = R(0)

\* BLDC::with_voltage_power_supply
WithVoltagePowerSupply ==
    \E supply \in PowerSupplies :
        Configured([motor EXCEPT !.voltage_power_supply = supply])

\* BLDC::phase_voltage
PhaseVoltage ==
    /\ \E volt_q \in PhaseVoltsQ, volt_d \in PhaseVoltsD, angle \in PhaseAngles :
       \E ab \in {inverse_park(sin_cos(f(angle)), volt_q, volt_d)} :
       \E v \in {phase_voltage(motor, volt_q, volt_d, angle)} :
           io' = [reads |-> <<>>, writes |-> 0, pwm_ok |-> TRUE,
                  volt_q |-> volt_q, volt_d |-> volt_d, angle |-> angle,
                  uncentered |-> inverse_clarke(ab), centered |-> v]
    /\ lastOp' = "phase_voltage"
    /\ UNCHANGED <<motor, pwm, foc, result, ops>>
    /\ UNCHANGED <<sensorVars, pidVars, open_loop>>

NextPhase == WithVoltagePowerSupply \/ PhaseVoltage

SpecPhase == InitPhase /\ [][NextPhase]_vars

-----------------------------------------------------------------------------
(* Claims about BLDC::phase_voltage, checked under SpecPhase.              *)

IsPhaseVoltage == lastOp' = "phase_voltage"

Max3(v) == IMax(IMax(v[1], v[2]), v[3])

Min3(v) == IMin(IMin(v[1], v[2]), v[3])

\* the pairwise differences a - b, b - c, c - a of a triple
Differences(v) == <<v[1] - v[2], v[2] - v[3], v[3] - v[1]>>

-----------------------------------------------------------------------------
(* Claims about the Torque and the Velocity mode, checked under Spec.      *)

\* the duties of the phase voltages of the pair qd on the motor m at the
\* sensor state s
DutiesOf(m, s, qd) ==
    percents(phase_voltage(m, f(qd[1]), f(qd[2]), electrical_angle(m, s)),
             f(m.voltage_power_supply))

\* C25: a tick in Torque mode leaves both PID controllers as they were and
\* commits the phase voltages of calculate_qd of the torque target; a tick in
\* Velocity mode changes the velocity PID alone
C25_TorqueBypassesPids ==
    [][/\ TickIn("Torque") =>
            /\ foc' = foc
            /\ (io'.pwm_ok /\ result' = Ok) =>
                 /\ io'.writes = 3
                 /\ pwm' = [a |-> DutiesOf(motor, sensor',
                                    calculate_qd(motor, sensor', foc.motion_control.target))[1],
                            b |-> DutiesOf(motor, sensor',
                                    calculate_qd(motor, sensor', foc.motion_control.target))[2],
                            c |-> DutiesOf(motor, sensor',
                                    calculate_qd(motor, sensor', foc.motion_control.target))[3]]
       /\ TickIn("Velocity") =>
            /\ foc'.angle_pid = foc.angle_pid
            /\ foc'.motion_control = foc.motion_control
            /\ foc'.velocity_pid =
                 compute(foc.velocity_pid, foc.motion_control.target,
                         sensor'.velocity, sensor'.prev.dt)]_vars

\* a tick in Torque mode that committed its three duties, on a turning rotor
C25_Witness ==
    /\ lastOp = "tick"
    /\ foc.motion_control.kind = "Torque"
    /\ sensor.velocity # ZERO
    /\ io.writes = 3
    /\ result = Ok
    /\ pwm # [a |-> 0, b |-> 0, c |-> 0]
    /\ foc.velocity_pid = FocNew.velocity_pid

\* a tick in Velocity mode that changed the velocity PID
C25_VelocityReached ==
    /\ lastOp = "tick"
    /\ foc.motion_control.kind = "Velocity"
    /\ foc.velocity_pid.state # FocNew.velocity_pid.state
    /\ foc.angle_pid = FocNew.angle_pid

-----------------------------------------------------------------------------
(* Claims about the first record after creation or reset.                  *)

\* C26 (as stated): the first record after a SensorState is created or reset
\* leaves the revolution counter at 0 for every reading in [0, 2*PI).  The
\* code compares the reading with the zeroed angle of the default state.
\* Checked under SpecSensor.
C26_FirstRecordKeepsCounter ==
    [][(IsRecord /\ recorded = 0) => sensor'.full_rotations = 0]_vars

\* the part of C26 that the code keeps: a first reading of at most 1.6*PI
\* leaves the counter at 0
C26_FirstRecordBelowThreshold ==
    [][(IsRecord /\ recorded = 0 /\ RLe(sensor'.angle, WrapThreshold))
         => sensor'.full_rotations = 0]_vars

\* C27 (as stated): when the rotor stays where it is after a successful
\* align, the velocity estimate of the first tick after it is zero, whatever
\* the angle of the rotor.  The record of that tick takes the reading against
\* the zeroed state of the reset.  Checked under Spec.
C27_NoPhantomVelocity ==
    [][(/\ IsTick
        /\ lastOp = "align" /\ result = Ok
        /\ io'.reads = <<Some(rotor)>>)
         => sensor'.velocity = ZERO]_vars

-----------------------------------------------------------------------------
(* Claim about the bound of the output of compute.                          *)

\* C28: every output of compute has a magnitude of at most the configured
\* limit, with or without a ramp, also when the limit was changed between
\* two calls.
C28_OutputWithinLimit ==
    [][IsCompute => RLe(RAbs(pid'.state.output), pid'.limit)]_vars

\* the part of C28 that holds: a compute that starts from a previous output
\* within the limit returns an output within the limit
C28_WithinLimitFromWithin ==
    [][(IsCompute /\ RLe(RAbs(pid.state.output), pid.limit))
         => RLe(RAbs(pid'.state.output), pid'.limit)]_vars

-----------------------------------------------------------------------------
(* Claims about align and the calibration offset.                           *)

\* C29: when align returns a sensor-read error, from the read before or from
\* the read after the forcing pulse, the calibration offset and the sensor
\* state are the same as before the call.
C29_FailedAlignLeavesState ==
    [][(IsAlign /\ result' = Err("sensor"))
         => /\ motor'.zero_electrical_angle = motor.zero_electrical_angle
            /\ sensor' = sensor]_vars

\* the part of C29 that holds: an align that fails at the read before the
\* pulse leaves the drive, the sensor state and the outputs as they were
C29_FirstReadFailureLeavesState ==
    [][(IsAlign /\ io'.reads = <<None>>)
         => /\ result' = Err("sensor")
            /\ motor' = motor
            /\ sensor' = sensor
            /\ pwm' = pwm]_vars

\* C30: a Foc tick never writes a duty cycle while the calibration offset is
\* absent: a successful align has completed before every tick that commits
\* phase voltages.
C30_NoVoltagesWithoutOffset ==
    [][(IsTick /\ io'.writes > 0) => motor.zero_electrical_angle # None]_vars

\* what holds instead: a tick leaves the calibration offset as it finds it,
\* present or absent
C30_TickKeepsOffset ==
    [][IsTick => motor'.zero_electrical_angle = motor.zero_electrical_angle]_vars

=============================================================================
